---- MODULE Spec2Model ----
(***************************************************************************)
(* Polymer flooding economic calculator (src/calc4.py).                    *)
(*                                                                         *)
(* Python floats are modelled as exact rationals [n |-> numerator,         *)
(* d |-> denominator] in lowest terms, d > 0.  float("-inf") is the        *)
(* record [n |-> -1, d |-> 0].  Input sets are chosen so that every        *)
(* intermediate numerator and denominator stays inside TLC's 32-bit        *)
(* integers, and so that round(x, 2) meets an exact tie only on values     *)
(* that a binary float represents exactly (where Python rounds half to     *)
(* even, as Round2 does).                                                  *)
(***************************************************************************)
EXTENDS Integers, Sequences, FiniteSets, TLC

VARIABLES pc, years, tax_rate, discount_rate, base_revenue, revenue_growth,
          opex_year1, opex_growth_long, revenues, opex_list, results,
          best_poly, best_npv, ki, k, shown, error, call, ret

vars == <<pc, years, tax_rate, discount_rate, base_revenue, revenue_growth,
          opex_year1, opex_growth_long, revenues, opex_list, results,
          best_poly, best_npv, ki, k, shown, error, call, ret>>

main_vars == <<pc, years, tax_rate, discount_rate, base_revenue, revenue_growth,
               opex_year1, opex_growth_long, revenues, opex_list, results,
               best_poly, best_npv, ki, k, shown, error>>

(***************************************************************************)
(* Float arithmetic, exact.                                                *)
(***************************************************************************)
Abs(x) == IF x < 0 THEN -x ELSE x

RECURSIVE Gcd(_, _)
Gcd(a, b) == IF b = 0 THEN a ELSE Gcd(b, a % b)

\* the float n/d, in lowest terms with a positive denominator
Rat(n, d) ==
    LET g == Gcd(Abs(n), Abs(d))
        s == IF d < 0 THEN -1 ELSE 1
    IN  [n |-> s * (n \div g), d |-> s * (d \div g)]

FromInt(i) == [n |-> i, d |-> 1]

Zero == FromInt(0)

One == FromInt(1)

\* float("-inf")
NegInf == [n |-> -1, d |-> 0]

Neg(x) == [n |-> -(x.n), d |-> x.d]

\* x + y
Add(x, y) ==
    LET g == Gcd(x.d, y.d)
        l == (x.d \div g) * y.d
    IN  Rat(x.n * (l \div x.d) + y.n * (l \div y.d), l)

\* x - y
Sub(x, y) == Add(x, Neg(y))

\* x * y
Mul(x, y) ==
    LET g1 == Gcd(Abs(x.n), y.d)
        g2 == Gcd(Abs(y.n), x.d)
    IN  Rat((x.n \div g1) * (y.n \div g2), (x.d \div g2) * (y.d \div g1))

\* x / y for y # 0 (Python raises ZeroDivisionError for y = 0: see npv)
Div(x, y) == Mul(x, Rat(y.d, y.n))

\* x ** t for an integer t >= 0
RECURSIVE Pow(_, _)
Pow(x, t) == IF t = 0 THEN One ELSE Mul(Pow(x, t - 1), x)

\* x > y; every finite float is greater than float("-inf")
Gt(x, y) ==
    IF x.d = 0 THEN FALSE
    ELSE IF y.d = 0 THEN TRUE
    ELSE Sub(x, y).n > 0

\* max(x, 0): Python keeps the first argument unless the second is greater
Max0(x) == IF Gt(Zero, x) THEN Zero ELSE x

\* round(x, 2): the nearest multiple of 0.01, an exact tie going to the even one
\* (whole is floor(x); cents are the rounded hundredths of the rest)
Round2(x) ==
    LET whole == x.n \div x.d
        c == (x.n % x.d) * 100
        q == c \div x.d
        r == c % x.d
        cents == IF 2 * r < x.d THEN q
                 ELSE IF 2 * r > x.d THEN q + 1
                 ELSE IF q % 2 = 0 THEN q
                 ELSE q + 1
    IN  Add(FromInt(whole), Rat(cents, 100))

(***************************************************************************)
(* Default settings and the catalog.                                       *)
(***************************************************************************)
DISCOUNT_RATE_DEFAULT == Rat(8, 100)

TAX_RATE_DEFAULT == Rat(8, 100)

BASE_REVENUE_DEFAULT == FromInt(5500000)

REVENUE_GROWTH_DEFAULT == Rat(6, 100)

OPEX_YEAR1_DEFAULT == FromInt(910000)

OPEX_GROWTH_LONG_DEFAULT == Rat(2, 100)

EQUIPMENT_REPLACEMENT_COST == FromInt(30000)

POLYMERS ==
    [ hpam    |-> [ price_per_kg |-> Rat(13, 10), conc_kg_per_m3 |-> Rat(8, 10),
                    inj_volume_m3 |-> FromInt(100000) ],
      xanthan |-> [ price_per_kg |-> Rat(24, 10), conc_kg_per_m3 |-> Rat(6, 10),
                    inj_volume_m3 |-> FromInt(100000) ],
      atbs    |-> [ price_per_kg |-> Rat(19, 10), conc_kg_per_m3 |-> Rat(7, 10),
                    inj_volume_m3 |-> FromInt(100000) ] ]

\* POLYMERS.keys(): a dict iterates in insertion order
PolymerKeys == <<"hpam", "xanthan", "atbs">>

\* the outcome of a call: a value, or the exception it raised
Ok(v) == [err |-> "none", val |-> v]

Raise(e) == [err |-> e, val |-> Zero]

(***************************************************************************)
(* Math utils.                                                             *)
(***************************************************************************)
\* npv with "total = ..." where the code has "total += ..."
RECURSIVE npv_loop_overwrite(_, _, _)
npv_loop_overwrite(cashflows, rate, i) ==
    IF i = 0 THEN Ok(Zero)
    ELSE LET prev == npv_loop_overwrite(cashflows, rate, i - 1)
             den  == Pow(Add(One, rate), i)
         IN  IF prev.err # "none" THEN prev
             ELSE IF den.n = 0 THEN Raise("ZeroDivisionError")
             ELSE Ok(Div(cashflows[i], den))

\* total after the first i terms of the loop of npv
RECURSIVE npv_loop(_, _, _)
npv_loop(cashflows, rate, i) ==
    IF i = 0 THEN Ok(Zero)
    ELSE LET prev == npv_loop(cashflows, rate, i - 1)
             den  == Pow(Add(One, rate), i)
         IN  IF prev.err # "none" THEN prev
             ELSE IF den.n = 0 THEN Raise("ZeroDivisionError")
             ELSE Ok(Add(prev.val, Div(cashflows[i], den)))

npv(cashflows, rate) == npv_loop(cashflows, rate, Len(cashflows))

\* polymer_cost returning the mass, the price left out
polymer_cost_mass_only(poly_key) ==
    IF poly_key \notin DOMAIN POLYMERS THEN Raise("KeyError")
    ELSE LET data == POLYMERS[poly_key]
         IN  Ok(Mul(data.conc_kg_per_m3, data.inj_volume_m3))

polymer_cost(poly_key) ==
    IF poly_key \notin DOMAIN POLYMERS THEN Raise("KeyError")
    ELSE LET data == POLYMERS[poly_key]
             mass == Mul(data.conc_kg_per_m3, data.inj_volume_m3)
         IN  Ok(Mul(mass, data.price_per_kg))

\* generate_revenues compounding the rounded value
RECURSIVE revenues_loop_rounded(_, _, _)
revenues_loop_rounded(i, start, growth) ==
    IF i <= 0 THEN [vals |-> <<>>, cur |-> start]
    ELSE LET prev == revenues_loop_rounded(i - 1, start, growth)
         IN  [vals |-> Append(prev.vals, Round2(prev.cur)),
              cur  |-> Mul(Round2(prev.cur), Add(One, growth))]

\* vals and cur after the first i iterations of the loop of generate_revenues
RECURSIVE revenues_loop(_, _, _)
revenues_loop(i, start, growth) ==
    IF i <= 0 THEN [vals |-> <<>>, cur |-> start]
    ELSE LET prev == revenues_loop(i - 1, start, growth)
         IN  [vals |-> Append(prev.vals, Round2(prev.cur)),
              cur  |-> Mul(prev.cur, Add(One, growth))]

generate_revenues(n, start, growth) == revenues_loop(n, start, growth).vals

\* generate_opex growing from start in every year after the plateau
RECURSIVE generate_opex_reanchored(_, _, _)
generate_opex_reanchored(n, start, long_growth) ==
    IF n <= 0 THEN <<>>
    ELSE LET opex == generate_opex_reanchored(n - 1, start, long_growth)
         IN  IF n <= 10 THEN Append(opex, start)
             ELSE Append(opex, Mul(start, Add(One, long_growth)))

RECURSIVE generate_opex(_, _, _)
generate_opex(n, start, long_growth) ==
    IF n <= 0 THEN <<>>
    ELSE LET opex == generate_opex(n - 1, start, long_growth)
         IN  IF n <= 10 THEN Append(opex, start)
             ELSE Append(opex, Mul(opex[n - 1], Add(One, long_growth)))

\* a ledger row from the parts that the variants below change
make_row(year, revenue, opex, poly_exp, equipment, tax_amount) ==
    LET taxable_income == Sub(Sub(Sub(revenue, opex), poly_exp), equipment)
        net_profit == Sub(taxable_income, tax_amount)
    IN  [ year |-> year, revenue |-> revenue, opex |-> opex,
          polymer_exp |-> poly_exp, equipment |-> equipment,
          taxable_income |-> taxable_income, tax |-> tax_amount,
          net_profit |-> net_profit, cash_flow |-> net_profit ]

\* the year loop taxing a loss: tax = taxable_income * tax_rate
ledger_row_taxes_losses(year, poly_cost_val, revenue_list, opex_series, tax) ==
    LET poly_exp  == IF year = 1 THEN poly_cost_val ELSE Zero
        equipment == IF year % 10 = 0 /\ year > 1
                     THEN EQUIPMENT_REPLACEMENT_COST ELSE Zero
        taxable_income ==
            Sub(Sub(Sub(revenue_list[year], opex_series[year]), poly_exp), equipment)
    IN  make_row(year, revenue_list[year], opex_series[year], poly_exp, equipment,
                 Mul(taxable_income, tax))

\* the year loop replacing the equipment in every year from the tenth on
ledger_row_equipment_from_10(year, poly_cost_val, revenue_list, opex_series, tax) ==
    LET poly_exp  == IF year = 1 THEN poly_cost_val ELSE Zero
        equipment == IF year >= 10 THEN EQUIPMENT_REPLACEMENT_COST ELSE Zero
        taxable_income ==
            Sub(Sub(Sub(revenue_list[year], opex_series[year]), poly_exp), equipment)
    IN  make_row(year, revenue_list[year], opex_series[year], poly_exp, equipment,
                 Mul(Max0(taxable_income), tax))

\* the year loop buying the polymer every year
ledger_row_polymer_each_year(year, poly_cost_val, revenue_list, opex_series, tax) ==
    LET poly_exp  == poly_cost_val
        equipment == IF year % 10 = 0 /\ year > 1
                     THEN EQUIPMENT_REPLACEMENT_COST ELSE Zero
        taxable_income ==
            Sub(Sub(Sub(revenue_list[year], opex_series[year]), poly_exp), equipment)
    IN  make_row(year, revenue_list[year], opex_series[year], poly_exp, equipment,
                 Mul(Max0(taxable_income), tax))

\* one pass of the year loop of build_cashflow_for_polymer
ledger_row(year, poly_cost_val, revenue_list, opex_series, tax) ==
    LET revenue   == revenue_list[year]
        opex      == opex_series[year]
        poly_exp  == IF year = 1 THEN poly_cost_val ELSE Zero
        equipment == IF year % 10 = 0 /\ year > 1
                     THEN EQUIPMENT_REPLACEMENT_COST ELSE Zero
        taxable_income == Sub(Sub(Sub(revenue, opex), poly_exp), equipment)
        tax_amount == Mul(Max0(taxable_income), tax)
        net_profit == Sub(taxable_income, tax_amount)
        cash_flow  == net_profit
    IN  [ year |-> year, revenue |-> revenue, opex |-> opex,
          polymer_exp |-> poly_exp, equipment |-> equipment,
          taxable_income |-> taxable_income, tax |-> tax_amount,
          net_profit |-> net_profit, cash_flow |-> cash_flow ]

\* rows, cashflows and sum_cf after the first i years
RECURSIVE ledger_loop(_, _, _, _, _)
ledger_loop(i, poly_cost_val, revenue_list, opex_series, tax) ==
    IF i = 0 THEN [rows |-> <<>>, cashflows |-> <<>>, sum_cf |-> Zero]
    ELSE LET prev == ledger_loop(i - 1, poly_cost_val, revenue_list, opex_series, tax)
             row  == ledger_row(i, poly_cost_val, revenue_list, opex_series, tax)
         IN  [ rows      |-> Append(prev.rows, row),
               cashflows |-> Append(prev.cashflows, row.cash_flow),
               sum_cf    |-> Add(prev.sum_cf, row.cash_flow) ]

NoResult(e) ==
    [err |-> e, rows |-> <<>>, npv |-> Zero, sum_cf |-> Zero, cashflows |-> <<>>]

build_cashflow_for_polymer(poly_key, n, revenue_list, opex_series, tax, discount) ==
    LET cost == polymer_cost(poly_key)
    IN  IF cost.err # "none" THEN NoResult(cost.err)
        ELSE LET led == ledger_loop(n, cost.val, revenue_list, opex_series, tax)
                 project_npv == npv(led.cashflows, discount)
             IN  IF project_npv.err # "none" THEN NoResult(project_npv.err)
                 ELSE [ err |-> "none", rows |-> led.rows, npv |-> project_npv.val,
                        sum_cf |-> led.sum_cf, cashflows |-> led.cashflows ]

(***************************************************************************)
(* Bounds of the exploration and the inputs typed at the prompts.          *)
(***************************************************************************)
\* the integers typed at the period prompt run from -1 to MaxYearsInput
MaxYearsInput == 21

\* growth and discount factors other than 1 and -1 are explored for horizons
\* up to ShortHorizon years
ShortHorizon == 2

\* what the user typed where a number is expected: float(new_val) / int(yrs)
\* succeeds with val, or raises ValueError
Typed(v) == [valid |-> TRUE, val |-> v]

Untyped == [valid |-> FALSE, val |-> Zero]

Hundred == FromInt(100)

YearsInputs == {[valid |-> FALSE, val |-> 0]} \cup {Typed(i) : i \in (-1)..MaxYearsInput}

Answers == {"y", "+", "n"}

TaxInputs == {Untyped} \cup {Typed(FromInt(p)) : p \in {0, 100}}

DiscountInputs == {Untyped} \cup {Typed(FromInt(p)) : p \in {0, 100, -50, -100, -200}}

RevenueInputs == {Untyped} \cup {Typed(FromInt(v)) : v \in {0, 120000}}

GrowthInputs == {Untyped} \cup {Typed(FromInt(p)) : p \in {0, 100, -50}}

OpexInputs == {Untyped} \cup {Typed(FromInt(v)) : v \in {0}}

OpexGrowthInputs == {Untyped} \cup {Typed(FromInt(p)) : p \in {0, 100}}

SessionInputs == {"n", "no", "", "1", "2", "3", "hpam", "xanthan", "atbs", "4", "pam"}

\* the discount percents explored for a horizon of n years
DiscountExplored(n, percent) ==
    \/ percent \in {FromInt(0), FromInt(-100), FromInt(-200)}
    \/ n <= ShortHorizon /\ percent \in {FromInt(100), FromInt(-50)}
    \/ n = 1

\* the revenue growth percents explored for a horizon of n years
GrowthExplored(n, percent) == n <= ShortHorizon \/ percent = Zero

\* the long-term OPEX growth percents explored for a horizon of n years
OpexGrowthExplored(n, percent) ==
    IF n <= 10 THEN percent = Mul(OPEX_GROWTH_LONG_DEFAULT, Hundred)
    ELSE percent \in {FromInt(0), FromInt(100)}

(***************************************************************************)
(* main                                                                    *)
(***************************************************************************)
ask_keep_or_change(current_val, ans, new_val) ==
    IF ans \in {"y", "yes", "+"}
    THEN IF new_val.valid THEN new_val.val ELSE current_val
    ELSE current_val

\* years = max(1, min(20, int(yrs))), 10 for an empty or non-numeric answer
select_years(yrs) ==
    IF yrs.valid
    THEN LET lo == IF yrs.val < 20 THEN yrs.val ELSE 20
         IN  IF lo > 1 THEN lo ELSE 1
    ELSE 10

\* the test written with >= : the last of several equal keys takes the title
is_better_or_equal(res_npv, cur_best_npv) == ~Gt(cur_best_npv, res_npv)

\* the test that lets a key take the title: res["npv"] > best_npv
is_better(res_npv, cur_best_npv) == Gt(res_npv, cur_best_npv)

\* the key a session answer stands for
session_key(ans) ==
    IF ans = "1" THEN "hpam"
    ELSE IF ans = "2" THEN "xanthan"
    ELSE IF ans = "3" THEN "atbs"
    ELSE ans

\* the session loop falling back to the first ledger for a key it does not know
session_report_fallback(key, res) ==
    IF key \in DOMAIN res THEN key ELSE "hpam"

\* what the session loop prints for key key
session_report(key, res) ==
    IF key \in DOMAIN res THEN key ELSE "Unknown key"

\* no function of the module is being called on its own
NoArgs ==
    [fn |-> "none", key |-> "", n |-> 0, start |-> Zero, growth |-> Zero,
     cashflows |-> <<>>, opex |-> <<>>, rate |-> Zero, tax |-> Zero]

Init ==
    /\ pc = "years"
    /\ years = 0
    /\ tax_rate = Zero
    /\ discount_rate = Zero
    /\ base_revenue = Zero
    /\ revenue_growth = Zero
    /\ opex_year1 = Zero
    /\ opex_growth_long = Zero
    /\ revenues = <<>>
    /\ opex_list = <<>>
    /\ results = <<>>
    /\ best_poly = "None"
    /\ best_npv = NegInf
    /\ ki = 0
    /\ k = ""
    /\ shown = ""
    /\ error = "none"
    /\ call = NoArgs
    /\ ret = [fn |-> "none"]

AskYears ==
    /\ pc = "years"
    /\ \E yrs \in YearsInputs : years' = select_years(yrs)
    /\ pc' = "tax"
    /\ UNCHANGED <<tax_rate, discount_rate, base_revenue, revenue_growth,
                   opex_year1, opex_growth_long, revenues, opex_list, results,
                   best_poly, best_npv, ki, k, shown, error, call, ret>>

AskTax ==
    /\ pc = "tax"
    /\ \E ans \in Answers, new_val \in TaxInputs :
         LET tax_percent == ask_keep_or_change(Mul(TAX_RATE_DEFAULT, Hundred), ans, new_val)
         IN  tax_rate' = Div(tax_percent, Hundred)
    /\ pc' = "discount"
    /\ UNCHANGED <<years, discount_rate, base_revenue, revenue_growth,
                   opex_year1, opex_growth_long, revenues, opex_list, results,
                   best_poly, best_npv, ki, k, shown, error, call, ret>>

AskDiscount ==
    /\ pc = "discount"
    /\ \E ans \in Answers, new_val \in DiscountInputs :
         LET discount_percent ==
                 ask_keep_or_change(Mul(DISCOUNT_RATE_DEFAULT, Hundred), ans, new_val)
         IN  /\ DiscountExplored(years, discount_percent)
             /\ discount_rate' = Div(discount_percent, Hundred)
    /\ pc' = "revenue"
    /\ UNCHANGED <<years, tax_rate, base_revenue, revenue_growth,
                   opex_year1, opex_growth_long, revenues, opex_list, results,
                   best_poly, best_npv, ki, k, shown, error, call, ret>>

AskRevenue ==
    /\ pc = "revenue"
    /\ \E ans \in Answers, new_val \in RevenueInputs :
         base_revenue' = ask_keep_or_change(BASE_REVENUE_DEFAULT, ans, new_val)
    /\ pc' = "growth"
    /\ UNCHANGED <<years, tax_rate, discount_rate, revenue_growth,
                   opex_year1, opex_growth_long, revenues, opex_list, results,
                   best_poly, best_npv, ki, k, shown, error, call, ret>>

AskGrowth ==
    /\ pc = "growth"
    /\ \E ans \in Answers, new_val \in GrowthInputs :
         LET revenue_growth_percent ==
                 ask_keep_or_change(Mul(REVENUE_GROWTH_DEFAULT, Hundred), ans, new_val)
         IN  /\ GrowthExplored(years, revenue_growth_percent)
             /\ revenue_growth' = Div(revenue_growth_percent, Hundred)
    /\ pc' = "opex"
    /\ UNCHANGED <<years, tax_rate, discount_rate, base_revenue,
                   opex_year1, opex_growth_long, revenues, opex_list, results,
                   best_poly, best_npv, ki, k, shown, error, call, ret>>

AskOpex ==
    /\ pc = "opex"
    /\ \E ans \in Answers, new_val \in OpexInputs :
         opex_year1' = ask_keep_or_change(OPEX_YEAR1_DEFAULT, ans, new_val)
    /\ pc' = "opex_growth"
    /\ UNCHANGED <<years, tax_rate, discount_rate, base_revenue, revenue_growth,
                   opex_growth_long, revenues, opex_list, results,
                   best_poly, best_npv, ki, k, shown, error, call, ret>>

AskOpexGrowth ==
    /\ pc = "opex_growth"
    /\ \E ans \in Answers, new_val \in OpexGrowthInputs :
         LET opex_growth_long_percent ==
                 ask_keep_or_change(Mul(OPEX_GROWTH_LONG_DEFAULT, Hundred), ans, new_val)
         IN  /\ OpexGrowthExplored(years, opex_growth_long_percent)
             /\ opex_growth_long' = Div(opex_growth_long_percent, Hundred)
    /\ pc' = "series"
    /\ UNCHANGED <<years, tax_rate, discount_rate, base_revenue, revenue_growth,
                   opex_year1, revenues, opex_list, results,
                   best_poly, best_npv, ki, k, shown, error, call, ret>>

\* steps 3 and the head of step 4: the series, then the empty results
BuildSeries ==
    /\ pc = "series"
    /\ revenues' = generate_revenues(years, base_revenue, revenue_growth)
    /\ opex_list' = generate_opex(years, opex_year1, opex_growth_long)
    /\ results' = <<>>
    /\ best_poly' = "None"
    /\ best_npv' = NegInf
    /\ ki' = 1
    /\ pc' = "calc"
    /\ UNCHANGED <<years, tax_rate, discount_rate, base_revenue, revenue_growth,
                   opex_year1, opex_growth_long, k, shown, error, call, ret>>

\* one pass of the loop over POLYMERS.keys(); an exception ends the program
CompareStep ==
    /\ pc = "calc"
    /\ ki <= Len(PolymerKeys)
    /\ LET key == PolymerKeys[ki]
           res == build_cashflow_for_polymer(key, years, revenues, opex_list,
                                             tax_rate, discount_rate)
       IN  IF res.err # "none"
           THEN /\ error' = res.err
                /\ pc' = "crashed"
                /\ UNCHANGED <<results, best_poly, best_npv, ki>>
           ELSE /\ results' = (key :> res) @@ results
                /\ IF is_better(res.npv, best_npv)
                   THEN best_npv' = res.npv /\ best_poly' = key
                   ELSE UNCHANGED <<best_npv, best_poly>>
                /\ ki' = ki + 1
                /\ pc' = IF ki = Len(PolymerKeys) THEN "summary" ELSE "calc"
                /\ UNCHANGED error
    /\ UNCHANGED <<years, tax_rate, discount_rate, base_revenue, revenue_growth,
                   opex_year1, opex_growth_long, revenues, opex_list, k, shown,
                   call, ret>>

\* step 5: the table, then POLYMERS[best_poly]
Summary ==
    /\ pc = "summary"
    /\ IF best_poly \in DOMAIN POLYMERS
       THEN pc' = "session" /\ UNCHANGED error
       ELSE pc' = "crashed" /\ error' = "KeyError"
    /\ UNCHANGED <<years, tax_rate, discount_rate, base_revenue, revenue_growth,
                   opex_year1, opex_growth_long, revenues, opex_list, results,
                   best_poly, best_npv, ki, k, shown, call, ret>>

\* step 6, an answer that asks for a ledger
SessionQuery ==
    /\ pc = "session"
    /\ \E ans \in SessionInputs \ {"n", "no", ""} :
         /\ k' = session_key(ans)
         /\ shown' = session_report(session_key(ans), results)
    /\ UNCHANGED <<pc, years, tax_rate, discount_rate, base_revenue, revenue_growth,
                   opex_year1, opex_growth_long, revenues, opex_list, results,
                   best_poly, best_npv, ki, error, call, ret>>

\* step 6, an answer that leaves the loop; steps 7 and 8 only read results
SessionBreak ==
    /\ pc = "session"
    /\ \E ans \in SessionInputs \cap {"n", "no", ""} : pc' = "done"
    /\ UNCHANGED <<years, tax_rate, discount_rate, base_revenue, revenue_growth,
                   opex_year1, opex_growth_long, revenues, opex_list, results,
                   best_poly, best_npv, ki, k, shown, error, call, ret>>

Next ==
    \/ AskYears
    \/ AskTax
    \/ AskDiscount
    \/ AskRevenue
    \/ AskGrowth
    \/ AskOpex
    \/ AskOpexGrowth
    \/ BuildSeries
    \/ CompareStep
    \/ Summary
    \/ SessionQuery
    \/ SessionBreak

Spec == Init /\ [][Next]_vars

(***************************************************************************)
(* The functions of the module called on their own.                        *)
(***************************************************************************)
\* longest cash-flow sequence handed to npv
MaxCashflows == 3

\* longest series asked of generate_revenues
MaxRevenueYears == 3

\* longest series asked of generate_opex
MaxOpexYears == 13

\* longest horizon handed to build_cashflow_for_polymer
MaxBuildYears == 2

SeqsUpTo(m, S) == UNION {[1..len -> S] : len \in 0..m}

NpvCalls ==
    {[NoArgs EXCEPT !.fn = "npv", !.cashflows = cfs, !.rate = r] :
        cfs \in SeqsUpTo(MaxCashflows, {FromInt(-100), Zero, FromInt(250)}),
        r \in {FromInt(-2), Rat(-3, 2), FromInt(-1), Rat(-1, 2), Zero, Rat(8, 100), One}}

CostCalls ==
    {[NoArgs EXCEPT !.fn = "polymer_cost", !.key = key] :
        key \in {"hpam", "xanthan", "atbs", "pam", "1"}}

RevenueCalls ==
    {[NoArgs EXCEPT !.fn = "generate_revenues", !.n = n, !.start = st, !.growth = g] :
        n \in 0..MaxRevenueYears,
        st \in {FromInt(5500000), Rat(1, 8), Rat(1024, 100)},
        g \in {Zero, Rat(6, 100), One, Rat(-1, 2), Rat(1, 4)}}

OpexCalls ==
    {[NoArgs EXCEPT !.fn = "generate_opex", !.n = n, !.start = st, !.growth = g] :
        n \in 0..MaxOpexYears,
        st \in {FromInt(910000), One},
        g \in {Zero, Rat(2, 100), One, Rat(-1, 2)}}

BuildCalls ==
    UNION {
      {[NoArgs EXCEPT !.fn = "build_cashflow_for_polymer", !.key = key, !.n = n,
                      !.cashflows = revs, !.opex = [i \in 1..n |-> op],
                      !.tax = tx, !.rate = r] :
          key \in {"hpam", "xanthan", "atbs", "pam"},
          revs \in [1..n -> {Zero, FromInt(150000), FromInt(1000000)}],
          op \in {Zero, FromInt(910000)},
          tx \in {Zero, Rat(8, 100), One},
          r \in {FromInt(-2), FromInt(-1), Rat(-1, 2), Zero, One}} :
      n \in 1..MaxBuildYears }

InitFn ==
    /\ pc = "years"
    /\ years = 0
    /\ tax_rate = Zero
    /\ discount_rate = Zero
    /\ base_revenue = Zero
    /\ revenue_growth = Zero
    /\ opex_year1 = Zero
    /\ opex_growth_long = Zero
    /\ revenues = <<>>
    /\ opex_list = <<>>
    /\ results = <<>>
    /\ best_poly = "None"
    /\ best_npv = NegInf
    /\ ki = 0
    /\ k = ""
    /\ shown = ""
    /\ error = "none"
    /\ call \in NpvCalls \cup CostCalls \cup RevenueCalls \cup OpexCalls \cup BuildCalls
    /\ ret = [fn |-> "none"]

CallNpv ==
    /\ call.fn = "npv" /\ ret.fn = "none"
    /\ ret' = [fn |-> "npv", out |-> npv(call.cashflows, call.rate)]
    /\ UNCHANGED <<main_vars, call>>

CallPolymerCost ==
    /\ call.fn = "polymer_cost" /\ ret.fn = "none"
    /\ ret' = [fn |-> "polymer_cost", out |-> polymer_cost(call.key)]
    /\ UNCHANGED <<main_vars, call>>

CallGenerateRevenues ==
    /\ call.fn = "generate_revenues" /\ ret.fn = "none"
    /\ ret' = [fn |-> "generate_revenues",
               out |-> generate_revenues(call.n, call.start, call.growth)]
    /\ UNCHANGED <<main_vars, call>>

CallGenerateOpex ==
    /\ call.fn = "generate_opex" /\ ret.fn = "none"
    /\ ret' = [fn |-> "generate_opex",
               out |-> generate_opex(call.n, call.start, call.growth)]
    /\ UNCHANGED <<main_vars, call>>

CallBuild ==
    /\ call.fn = "build_cashflow_for_polymer" /\ ret.fn = "none"
    /\ ret' = [fn |-> "build_cashflow_for_polymer",
               out |-> build_cashflow_for_polymer(call.key, call.n, call.cashflows,
                                                  call.opex, call.tax, call.rate)]
    /\ UNCHANGED <<main_vars, call>>

NextFn ==
    \/ CallNpv
    \/ CallPolymerCost
    \/ CallGenerateRevenues
    \/ CallGenerateOpex
    \/ CallBuild

SpecFn == InitFn /\ [][NextFn]_vars

(***************************************************************************)
(* Properties.                                                             *)
(***************************************************************************)
\* the comparison loop has run over every catalog key without an exception
Compared == pc \in {"summary", "session", "done"}

KeySet == {PolymerKeys[i] : i \in 1..Len(PolymerKeys)}

\* the place of a key in the declaration order of the catalog
KeyIndex(key) == CHOOSE i \in 1..Len(PolymerKeys) : PolymerKeys[i] = key

RECURSIVE SumSeq(_)
SumSeq(q) == IF q = <<>> THEN Zero ELSE Add(SumSeq(SubSeq(q, 1, Len(q) - 1)), q[Len(q)])

AbsRat(x) == IF x.n < 0 THEN Neg(x) ELSE x

\* v is a multiple of 0.01 and no further than 0.005 from x
IsRounded2(v, x) ==
    /\ 100 % v.d = 0
    /\ ~Gt(Mul(AbsRat(Sub(v, x)), FromInt(200)), One)

(* C1: at every point of the comparison loop, and after it, best_poly is one
   of the keys compared so far, best_npv is its NPV, no compared key has a
   greater NPV, and every compared key declared before best_poly has a
   strictly smaller NPV: among keys of equal greatest NPV the first in
   declaration order (hpam, xanthan, atbs) holds the title. After the loop
   every catalog key has been compared. *)
C1_FirstGreatestKeyWins ==
    /\ Compared => DOMAIN results = KeySet
    /\ DOMAIN results # {} =>
         /\ best_poly \in DOMAIN results
         /\ best_npv = results[best_poly].npv
         /\ \A key \in DOMAIN results :
              /\ ~Gt(results[key].npv, results[best_poly].npv)
              /\ KeyIndex(key) < KeyIndex(best_poly)
                   => Gt(results[best_poly].npv, results[key].npv)

\* the loop is over and a later key has the same NPV as the best key
C1_Witness ==
    /\ Compared
    /\ best_poly = "hpam"
    /\ results["xanthan"].npv = results["hpam"].npv
    /\ results["atbs"].npv = results["hpam"].npv

(* C2: for every cash-flow sequence and every rate <= -1 (rate = -1 and
   rate < -1 alike), npv ends with an error and returns no number. Stated
   here for the sequences that hold at least one cash flow, as every
   sequence handed over by build_cashflow_for_polymer does. *)
C2_RateAtMostMinusOneFails ==
    (ret.fn = "npv" /\ Len(call.cashflows) >= 1 /\ ~Gt(call.rate, FromInt(-1)))
      => ret.out.err # "none"

\* a step of the session loop that looks up a key the catalog does not hold
UnknownLookup ==
    /\ pc = "session"
    /\ <<k, shown>>' # <<k, shown>>
    /\ k' \notin DOMAIN POLYMERS

(* C3: a lookup of a key that is not in the catalog gives the unknown-key
   outcome instead of a ledger (KeyError from polymer_cost, the "Unknown key"
   message in the session loop), the session stays in its loop with no
   exception, and the results computed before are unchanged. *)
C3_UnknownKeyRecoverable ==
    [][UnknownLookup =>
         /\ shown' = "Unknown key"
         /\ polymer_cost(k').err = "KeyError"
         /\ pc' = "session"
         /\ error' = "none"
         /\ results' = results
         /\ DOMAIN results' = KeySet]_vars

\* the session loop has answered an unknown key and is waiting for another
C3_Witness == pc = "session" /\ k = "pam" /\ shown = "Unknown key"

(* C4: in every ledger built for the horizon of 1 to 20 years, each year's
   taxable income is revenue - opex - polymer expense - equipment expense,
   its tax is taxable income x tax_rate when taxable income is positive and
   0 otherwise, its net profit is taxable income - tax and its cash flow is
   its net profit. *)
C4_LedgerRowIdentities ==
    \A key \in DOMAIN results :
      /\ years \in 1..20
      /\ Len(results[key].rows) = years
      /\ \A i \in 1..years :
           LET r == results[key].rows[i]
           IN  /\ r.year = i
               /\ r.taxable_income =
                    Sub(Sub(Sub(r.revenue, r.opex), r.polymer_exp), r.equipment)
               /\ r.tax = IF r.taxable_income.n > 0
                          THEN Mul(r.taxable_income, tax_rate) ELSE Zero
               /\ r.net_profit = Sub(r.taxable_income, r.tax)
               /\ r.cash_flow = r.net_profit

\* a ledger holds a loss-making year, untaxed although the tax rate is positive
C4_Witness ==
    /\ tax_rate.n > 0
    /\ \E key \in DOMAIN results : \E i \in 1..Len(results[key].rows) :
         /\ results[key].rows[i].taxable_income.n < 0
         /\ results[key].rows[i].tax = Zero
    /\ \E key \in DOMAIN results : \E i \in 1..Len(results[key].rows) :
         results[key].rows[i].tax.n > 0

(* C5: in every ledger the equipment expense is 30,000 in years 10 and 20
   and 0 in every other year, so a horizon below 10 years carries none. *)
C5_EquipmentEveryTenthYear ==
    \A key \in DOMAIN results :
      \A i \in 1..Len(results[key].rows) :
        results[key].rows[i].equipment =
          IF i = 10 \/ i = 20 THEN FromInt(30000) ELSE Zero

\* a 20-year ledger with the replacement charged in year 20
C5_Witness ==
    /\ years = 20
    /\ "atbs" \in DOMAIN results
    /\ results["atbs"].rows[20].equipment = FromInt(30000)
    /\ results["atbs"].rows[10].equipment = FromInt(30000)

\* concentration x injected volume x unit price, and the amount it comes to
PurchaseCost(key) ==
    Mul(Mul(POLYMERS[key].conc_kg_per_m3, POLYMERS[key].inj_volume_m3),
        POLYMERS[key].price_per_kg)

PurchaseAmount(key) ==
    IF key = "hpam" THEN FromInt(104000)
    ELSE IF key = "xanthan" THEN FromInt(144000)
    ELSE FromInt(133000)

(* C6: for every catalog key the polymer expense of year 1 is concentration
   x injected volume x unit price (104,000 for hpam, 144,000 for xanthan,
   133,000 for atbs) and the polymer expense of every later year is 0. *)
C6_PolymerExpenseYearOneOnly ==
    \A key \in DOMAIN results :
      /\ key \in KeySet
      /\ results[key].rows[1].polymer_exp = PurchaseCost(key)
      /\ results[key].rows[1].polymer_exp = PurchaseAmount(key)
      /\ \A i \in 2..Len(results[key].rows) :
           results[key].rows[i].polymer_exp = Zero

\* every key has a ledger of several years under a tax rate that is not the default
C6_Witness ==
    /\ DOMAIN results = KeySet
    /\ years >= 2
    /\ tax_rate # TAX_RATE_DEFAULT

(* C7: generate_opex(years, start, g) returns exactly `years` values; the
   values of years 1..min(years, 10) equal start whatever g is; the value of
   every year n >= 11 is the value of year n-1 times (1 + g), year 11 being
   start x (1 + g). *)
C7_OpexPlateauThenCompounding ==
    ret.fn = "generate_opex" =>
      /\ Len(ret.out) = call.n
      /\ \A y \in 1..call.n :
           IF y <= 10 THEN ret.out[y] = call.start
           ELSE ret.out[y] = Mul(ret.out[y - 1], Add(One, call.growth))
      /\ call.n >= 11 => ret.out[11] = Mul(call.start, Add(One, call.growth))

\* generate_opex(12, 910000, 0.02): year 11 is 928,200 and year 12 grows from it
C7_Witness ==
    /\ ret.fn = "generate_opex"
    /\ call.n >= 12
    /\ call.start = FromInt(910000)
    /\ call.growth = Rat(2, 100)
    /\ ret.out[11] = FromInt(928200)
    /\ ret.out[12] = Rat(946764, 1)

(* C8: generate_revenues(years, start, growth) returns exactly `years`
   values; element i (0-indexed) is start x (1 + growth)^i rounded to 2
   decimals, the compounded value being the unrounded one; with growth = 0
   every element is round(start, 2). *)
C8_RevenuesRoundedClosedForm ==
    ret.fn = "generate_revenues" =>
      /\ Len(ret.out) = call.n
      /\ \A i \in 0..(call.n - 1) :
           /\ IsRounded2(ret.out[i + 1],
                         Mul(call.start, Pow(Add(One, call.growth), i)))
           /\ ret.out[i + 1] = Round2(Mul(call.start, Pow(Add(One, call.growth), i)))
           /\ call.growth = Zero => ret.out[i + 1] = ret.out[1]

\* generate_revenues(3, 0.125, 1.0) = [0.12, 0.25, 0.5]: doubling the rounded
\* 0.12 would have given 0.24
C8_Witness ==
    /\ ret.fn = "generate_revenues"
    /\ call.n = 3
    /\ call.start = Rat(1, 8)
    /\ call.growth = One
    /\ ret.out = <<Rat(12, 100), Rat(1, 4), Rat(1, 2)>>

(* C9: npv(cashflows, 0) is the arithmetic sum of the cash flows, and a
   result built with discount_rate = 0 stores an npv equal to its sum_cf. *)
C9_ZeroRateNpvIsSum ==
    /\ (ret.fn = "npv" /\ call.rate = Zero) =>
         /\ ret.out.err = "none"
         /\ ret.out.val = SumSeq(call.cashflows)
    /\ (ret.fn = "build_cashflow_for_polymer" /\ call.rate = Zero
          /\ call.key \in KeySet) =>
         /\ ret.out.err = "none"
         /\ ret.out.sum_cf = SumSeq(ret.out.cashflows)
         /\ ret.out.npv = ret.out.sum_cf

\* a result of two years built at rate 0 whose cash flows do not cancel
C9_Witness ==
    /\ ret.fn = "build_cashflow_for_polymer"
    /\ call.rate = Zero
    /\ call.n = 2
    /\ ret.out.err = "none"
    /\ ret.out.cashflows[1].n # 0
    /\ ret.out.cashflows[2].n # 0
    /\ ret.out.npv.n # 0

\* a catalog key whose purchase cost no other key undercuts
Cheapest == CHOOSE key \in KeySet :
              \A other \in KeySet \ {key} : Gt(PurchaseCost(other), PurchaseCost(key))

(* C10: after a comparison run the cash flows of any two polymers are equal
   in every year >= 2 and differ in year 1; for 0 <= tax_rate < 1 and
   discount_rate > -1 the polymer of smallest purchase cost (hpam) has an
   NPV strictly greater than every other polymer's and is best_poly. *)
C10_CheapestPolymerWins ==
    Compared =>
      /\ \A a \in KeySet, b \in KeySet : \A y \in 2..years :
           results[a].cashflows[y] = results[b].cashflows[y]
      /\ (tax_rate.n >= 0 /\ Gt(One, tax_rate) /\ Gt(discount_rate, FromInt(-1))) =>
           /\ \A a \in KeySet : \A b \in KeySet \ {a} :
                results[a].cashflows[1] # results[b].cashflows[1]
           /\ Cheapest = "hpam"
           /\ best_poly = Cheapest
           /\ \A other \in KeySet \ {Cheapest} :
                Gt(results[Cheapest].npv, results[other].npv)

\* a run of several years, taxed and discounted at a rate other than 0
C10_Witness ==
    /\ Compared
    /\ years >= 2
    /\ tax_rate = TAX_RATE_DEFAULT
    /\ discount_rate = One
    /\ best_poly = "hpam"
    /\ Gt(results["hpam"].npv, results["atbs"].npv)
    /\ Gt(results["atbs"].npv, results["xanthan"].npv)

====
